---------------------------- MODULE Spec2Model ----------------------------
(***************************************************************************)
(* A model of inverse_warp.py (SfmLearner-Pytorch): the process-wide pixel *)
(* grid cache, the shape validation, the unprojection / reprojection       *)
(* arithmetic and the pose assembly.                                       *)
(*                                                                         *)
(* Tensor elements are modelled as exact rationals extended with the IEEE  *)
(* special values: a number is a pair <<n, d>> with d >= 0 in lowest       *)
(* terms; <<1, 0>> is +inf, <<-1, 0>> is -inf and <<0, 0>> is NaN.         *)
(* Rounding of finite results is not modelled.                             *)
(***************************************************************************)
EXTENDS Integers, Sequences, FiniteSets, TLC

(***************************************************************************)
(* Bounds of the model.                                                    *)
(***************************************************************************)
MaxH == 3
MaxW == 3
MaxCalls == 3
MaxB == 2
MaxGrid == 4

VARIABLES
    pixel_coords,   \* the module global of line 5: None or the cached grid
    calls,          \* the pixel2cam calls returned so far: size and grid used
    args,           \* the arguments of the call(s) under way
    ret,            \* what the call(s) returned or raised
    pc              \* the line each thread is at, in the threaded runs

vars == <<pixel_coords, calls, args, ret, pc>>

-----------------------------------------------------------------------------
(***************************************************************************)
(* Extended rational arithmetic.                                           *)
(***************************************************************************)
Abs(x) == IF x < 0 THEN -x ELSE x

Sgn(x) == IF x < 0 THEN -1 ELSE IF x > 0 THEN 1 ELSE 0

RECURSIVE GCD(_, _)
GCD(a, b) == IF b = 0 THEN a ELSE GCD(b, a % b)

Q(n, d) ==
    IF d = 0 THEN <<Sgn(n), 0>>
    ELSE LET g == GCD(Abs(n), Abs(d))
             s == IF d < 0 THEN -1 ELSE 1
         IN  <<(s * n) \div g, Abs(d) \div g>>

I(n) == <<n, 1>>

NaN == <<0, 0>>

IsNaN(a) == a = NaN

IsFinite(a) == a[2] > 0

Neg(a) == <<-a[1], a[2]>>

Mul(a, b) == Q(a[1] * b[1], a[2] * b[2])

\* a / b; a zero divisor is +0, as is every zero this program divides by
Div(a, b) ==
    Q(a[1] * b[2] * (IF b[1] < 0 THEN -1 ELSE 1), a[2] * Abs(b[1]))

Add(a, b) ==
    IF IsFinite(a) /\ IsFinite(b) THEN Q(a[1] * b[2] + b[1] * a[2], a[2] * b[2])
    ELSE IF IsNaN(a) \/ IsNaN(b) THEN NaN
    ELSE IF IsFinite(b) THEN a
    ELSE IF IsFinite(a) THEN b
    ELSE IF a = b THEN a
    ELSE NaN

Sub(a, b) == Add(a, Neg(b))

Lt(a, b) ==
    IF IsNaN(a) \/ IsNaN(b) THEN FALSE
    ELSE IF ~IsFinite(a) /\ ~IsFinite(b) THEN a[1] < b[1]
    ELSE a[1] * b[2] < b[1] * a[2]

Gt(a, b) == Lt(b, a)

Le(a, b) == ~IsNaN(a) /\ ~IsNaN(b) /\ ~Lt(b, a)

Min2(x, y) == IF x < y THEN x ELSE y

\* a function on 1..n as the sequence of its values: a tensor is computed
\* once, not at each use of one of its elements
AsSeq(f) == SubSeq(f, 1, Len(f))

-----------------------------------------------------------------------------
(***************************************************************************)
(* The pixel grid cache.  A grid [1, 3, H, W] is a sequence of H rows of W *)
(* cells, each cell the triple of its three channels; None is <<>>.        *)
(***************************************************************************)
None == <<>>

\* the channels of line 15 stacked as (i_range, j_range, ones)
set_id_grid_ij(h, w) ==
    AsSeq([i \in 1..h |-> AsSeq([j \in 1..w |-> <<I(i - 1), I(j - 1), I(1)>>])])

\* lines 10-15: channel 0 is j_range (the column), channel 1 is i_range
set_id_grid(h, w) ==
    AsSeq([i \in 1..h |-> AsSeq([j \in 1..w |-> <<I(j - 1), I(i - 1), I(1)>>])])

GridH(g) == Len(g)

GridW(g) == Len(g[1])

\* line 38, pixel_coords[:,:,:h,:w]: a slice stops at the end of the tensor
Crop(g, h, w) ==
    AsSeq([i \in 1..Min2(GridH(g), h) |->
            AsSeq([j \in 1..Min2(GridW(g), w) |-> g[i][j]])])

\* line 38, .expand(b,3,h,w): a dimension of size 1 is broadcast, any
\* other size has to be the size asked for
CanExpand(g, h, w) ==
    /\ GridH(g) = h \/ GridH(g) = 1
    /\ GridW(g) = w \/ GridW(g) = 1

Expand(g, h, w) ==
    AsSeq([i \in 1..h |-> AsSeq([j \in 1..w |->
        g[IF GridH(g) = 1 THEN 1 ELSE i][IF GridW(g) = 1 THEN 1 ELSE j]])])

-----------------------------------------------------------------------------
(***************************************************************************)
(* Matrices are sequences of rows; a depth map [H, W] is a sequence of H   *)
(* rows of W numbers.  One batch element is modelled (bmm, expand and the  *)
(* element-wise operations treat the batch elements independently).        *)
(***************************************************************************)
Dot3(a, b) == Add(Add(Mul(a[1], b[1]), Mul(a[2], b[2])), Mul(a[3], b[3]))

MatVec(M, v) == <<Dot3(M[1], v), Dot3(M[2], v), Dot3(M[3], v)>>

Identity3 == << <<I(1), I(0), I(0)>>, <<I(0), I(1), I(0)>>, <<I(0), I(0), I(1)>> >>

\* unit focal length, principal point (3/2, 3/2), and its inverse
PPMat == << <<I(1), I(0), Q(3, 2)>>, <<I(0), I(1), Q(3, 2)>>, <<I(0), I(0), I(1)>> >>

PPInv == << <<I(1), I(0), Q(-3, 2)>>, <<I(0), I(1), Q(-3, 2)>>, <<I(0), I(0), I(1)>> >>

\* a depth map holding d0 and d1 in a checkerboard
DepthMap(h, w, d0, d1) ==
    AsSeq([i \in 1..h |->
            AsSeq([j \in 1..w |-> IF (i + j) % 2 = 0 THEN d0 ELSE d1])])

\* lines 35-40 for one batch element: the cache after the call, whether
\* expand accepted the cropped grid, the grid used and the value returned
pixel2cam(cache, depth, intrinsics_inv) ==
    LET h == Len(depth)
        w == Len(depth[1])
        grid == IF cache = None \/ GridH(cache) < h
                THEN set_id_grid(h, w) ELSE cache
        cropped == Crop(grid, h, w)
        ok == CanExpand(cropped, h, w)
        current_pixel_coords == IF ok THEN Expand(cropped, h, w) ELSE None
    IN  [pixel_coords |-> grid,
         ok |-> ok,
         current_pixel_coords |-> current_pixel_coords,
         cam_coords |->
            IF ok
            THEN AsSeq([i \in 1..h |-> AsSeq([j \in 1..w |->
                    LET v == MatVec(intrinsics_inv, current_pixel_coords[i][j])
                        d == depth[i][j]
                    IN  <<Mul(v[1], d), Mul(v[2], d), Mul(v[3], d)>>])])
            ELSE None]

-----------------------------------------------------------------------------
(***************************************************************************)
(* Successive pixel2cam calls of one thread.                               *)
(***************************************************************************)
CacheDepths == {I(1), I(2)}

CacheKinv == {Identity3, PPInv}

InitCache ==
    /\ pixel_coords = None
    /\ calls = <<>>
    /\ args = None
    /\ ret = None
    /\ pc = None

Pixel2CamCall ==
    /\ Len(calls) < MaxCalls
    /\ \E h \in 1..MaxH, w \in 1..MaxW, d0 \in CacheDepths, K \in CacheKinv :
          LET r == pixel2cam(pixel_coords, DepthMap(h, w, d0, I(1)), K)
          IN  /\ pixel_coords' = r.pixel_coords
              /\ calls' = Append(calls, [h |-> h, w |-> w, ok |-> r.ok,
                                         grid |-> r.current_pixel_coords])
              /\ ret' = r.cam_coords
    /\ UNCHANGED <<args, pc>>

NextCache == Pixel2CamCall

SpecCache == InitCache /\ [][NextCache]_vars

\* the grid a call for an h x w depth map has to use
GoodGrid(g, h, w) ==
    /\ Len(g) = h
    /\ \A i \in 1..h :
          /\ Len(g[i]) = w
          /\ \A j \in 1..w : g[i][j] = <<I(j - 1), I(i - 1), I(1)>>

\* C1: of two successive calls from an empty cache, the second at least as
\* high and as wide as the first and larger in one dimension, both return
\* and both use the (col, row, 1) grid of their own size.
C1_CacheGrowth ==
    (/\ Len(calls) >= 2
     /\ calls[1].h <= calls[2].h
     /\ calls[1].w <= calls[2].w
     /\ calls[1].h < calls[2].h \/ calls[1].w < calls[2].w)
    => \A k \in 1..2 :
          calls[k].ok /\ GoodGrid(calls[k].grid, calls[k].h, calls[k].w)

\* C2: once filled the cache is never emptied, and neither its height nor
\* its width decreases from one call to the next.
C2_CacheOnlyGrows ==
    [][pixel_coords # None =>
          /\ pixel_coords' # None
          /\ GridH(pixel_coords') >= GridH(pixel_coords)
          /\ GridW(pixel_coords') >= GridW(pixel_coords)]_vars

-----------------------------------------------------------------------------
(***************************************************************************)
(* pixel2cam run by several threads, one call each.  The interpreter       *)
(* switches threads between any two accesses of the global: the two reads  *)
(* of line 36, the store of line 15 and the read of line 38.  args[t].seen *)
(* is the cache as the thread last read or wrote it before its crop.       *)
(***************************************************************************)
NThreads == 2

Threads == 1..NThreads

InitConc ==
    /\ pixel_coords = None
    /\ calls = <<>>
    /\ args = [t \in Threads |-> None]
    /\ ret = [t \in Threads |-> None]
    /\ pc = [t \in Threads |-> "idle"]

\* line 35: b, h, w = depth.size()
Line35(t) ==
    /\ pc[t] = "idle"
    /\ \E h \in 1..MaxH, w \in 1..MaxW :
          args' = [args EXCEPT ![t] = [h |-> h, w |-> w, seen |-> None]]
    /\ pc' = [pc EXCEPT ![t] = "l36a"]
    /\ UNCHANGED <<pixel_coords, calls, ret>>

\* line 36, left operand: pixel_coords is None
Line36a(t) ==
    /\ pc[t] = "l36a"
    /\ pc' = [pc EXCEPT ![t] = IF pixel_coords = None THEN "l37" ELSE "l36b"]
    /\ UNCHANGED <<pixel_coords, calls, args, ret>>

\* line 36, right operand: pixel_coords.size(2) < h
Line36b(t) ==
    /\ pc[t] = "l36b"
    /\ pc' = [pc EXCEPT ![t] =
                IF GridH(pixel_coords) < args[t].h THEN "l37" ELSE "l38"]
    /\ args' = [args EXCEPT ![t].seen = pixel_coords]
    /\ UNCHANGED <<pixel_coords, calls, ret>>

\* line 37: set_id_grid(depth), whose only shared access is the store of
\* line 15
Line37(t) ==
    /\ pc[t] = "l37"
    /\ pixel_coords' = set_id_grid(args[t].h, args[t].w)
    /\ args' = [args EXCEPT ![t].seen = pixel_coords']
    /\ pc' = [pc EXCEPT ![t] = "l38"]
    /\ UNCHANGED <<calls, ret>>

\* line 38: crop the cache and expand it; lines 39-40 touch locals only
Line38(t) ==
    /\ pc[t] = "l38"
    /\ LET cropped == Crop(pixel_coords, args[t].h, args[t].w)
           ok == CanExpand(cropped, args[t].h, args[t].w)
       IN  ret' = [ret EXCEPT ![t] =
                    [ok |-> ok,
                     grid |-> IF ok THEN Expand(cropped, args[t].h, args[t].w)
                              ELSE None,
                     stale |-> pixel_coords # args[t].seen]]
    /\ pc' = [pc EXCEPT ![t] = "done"]
    /\ UNCHANGED <<pixel_coords, calls, args>>

NextConc ==
    \E t \in Threads :
        Line35(t) \/ Line36a(t) \/ Line36b(t) \/ Line37(t) \/ Line38(t)

SpecConc == InitConc /\ [][NextConc]_vars

\* C5: under every interleaving each call gets the (col, row, 1) grid of
\* its own size, and the cache it crops is the one it checked or built.
C5_GuardedRegeneration ==
    \A t \in Threads :
        pc[t] = "done" =>
            /\ ret[t].ok
            /\ GoodGrid(ret[t].grid, args[t].h, args[t].w)
            /\ ~ret[t].stale

-----------------------------------------------------------------------------
(***************************************************************************)
(* inverse_warp on the sizes of its arguments.  A size is the sequence of  *)
(* the dimensions; an outcome tells the exception raised ("none" when the  *)
(* call returned), the line that raised it, the fields of the message of   *)
(* line 23 and the size of the value returned.                             *)
(***************************************************************************)
DigitChars == <<"0", "1", "2", "3", "4", "5", "6", "7", "8", "9">>

isdigit(c) == \E k \in 1..10 : DigitChars[k] = c

int(c) == (CHOOSE k \in 1..10 : DigitChars[k] = c) - 1

Outcome(exc, line, name, expected, got, size) ==
    [exc |-> exc, line |-> line, name |-> name, expected |-> expected,
     got |-> got, size |-> size]

\* lines 19-23; input.size(i) raises when i is not a dimension (IndexError,
\* a RuntimeError in the torch releases of Variable), before the assert
check_sizes(input, input_name, expected, line) ==
    LET digits == {i \in 1..Len(expected) : isdigit(expected[i])}
    IN  IF \E i \in digits : i > Len(input)
        THEN Outcome("IndexError", line, "", <<>>, <<>>, <<>>)
        ELSE IF /\ Len(input) = Len(expected)
                /\ \A i \in digits : input[i] = int(expected[i])
        THEN Outcome("none", line, "", <<>>, <<>>, <<>>)
        ELSE Outcome("AssertionError", line, input_name, expected, input, <<>>)

\* lines 35-40 on sizes: the cache after the call and the size returned,
\* <<>> when expand (line 38) or bmm (line 39) raises
pixel2cam_sizes(cache, depth, intrinsics_inv) ==
    LET b == depth[1]
        h == depth[2]
        w == depth[3]
        grid == IF cache = None \/ GridH(cache) < h
                THEN set_id_grid(h, w) ELSE cache
    IN  [pixel_coords |-> grid,
         line |-> IF ~CanExpand(Crop(grid, h, w), h, w) THEN 38
                  ELSE IF intrinsics_inv[1] # b THEN 39 ELSE 0,
         size |-> <<b, 3, h, w>>]

\* lines 141-161
inverse_warp_sizes(cache, img, depth, pose, intrinsics, intrinsics_inv) ==
    LET c1 == check_sizes(img, "img", <<"B", "3", "H", "W">>, 141)
        c2 == check_sizes(depth, "depth", <<"B", "H", "W">>, 142)
        c3 == check_sizes(pose, "pose", <<"B", "6">>, 143)
        c4 == check_sizes(intrinsics, "intrinsics", <<"B", "3", "3">>, 144)
        c5 == check_sizes(intrinsics_inv, "intrinsics", <<"B", "3", "3">>, 145)
        p2c == pixel2cam_sizes(cache, depth, intrinsics_inv)
        Raise(line) == Outcome("RuntimeError", line, "", <<>>, <<>>, <<>>)
    IN  IF c1.exc # "none" THEN [pixel_coords |-> cache, ret |-> c1]
        ELSE IF c2.exc # "none" THEN [pixel_coords |-> cache, ret |-> c2]
        ELSE IF c3.exc # "none" THEN [pixel_coords |-> cache, ret |-> c3]
        ELSE IF c4.exc # "none" THEN [pixel_coords |-> cache, ret |-> c4]
        ELSE IF c5.exc # "none" THEN [pixel_coords |-> cache, ret |-> c5]
        ELSE IF intrinsics_inv # intrinsics
        THEN [pixel_coords |-> cache,
              ret |-> Outcome("AssertionError", 147, "", <<>>, <<>>, <<>>)]
        \* line 151
        ELSE IF p2c.line # 0
        THEN [pixel_coords |-> p2c.pixel_coords, ret |-> Raise(p2c.line)]
        \* line 156: intrinsics [B,3,3] bmm pose_mat [B,3,4]
        ELSE IF intrinsics[1] # pose[1]
        THEN [pixel_coords |-> p2c.pixel_coords, ret |-> Raise(156)]
        \* line 158: the batch sizes the bmm of line 53 compares are those of
        \* intrinsics and depth, equal once lines 147 and 39 have passed
        \* line 159: grid_sample wants one grid per image and returns
        \* [B, C, H, W] with the grid's H and W
        ELSE IF img[1] # p2c.size[1]
        THEN [pixel_coords |-> p2c.pixel_coords, ret |-> Raise(159)]
        ELSE [pixel_coords |-> p2c.pixel_coords,
              ret |-> Outcome("none", 161, "", <<>>, <<>>,
                              <<img[1], img[2], p2c.size[3], p2c.size[4]>>)]

ImgSizes == {<<b, 3, 2, 2>> : b \in 1..MaxB} \cup {<<1, 4, 2, 2>>, <<1>>}

DepthSizes ==
    {<<b, 2, 2>> : b \in 1..MaxB} \cup {<<1, 2, 3>>, <<1, 3, 2>>, <<2, 2>>}

PoseSizes == {<<1, 6>>, <<2, 6>>, <<1, 5>>}

IntrinsicsSizes == {<<1, 3, 3>>, <<2, 3, 3>>, <<1, 3, 4>>}

InitWarp ==
    /\ pixel_coords = None
    /\ calls = <<>>
    /\ args = None
    /\ ret = None
    /\ pc = None

InverseWarpCall ==
    /\ \E img \in ImgSizes, depth \in DepthSizes, pose \in PoseSizes,
          intrinsics \in IntrinsicsSizes, intrinsics_inv \in IntrinsicsSizes :
          LET r == inverse_warp_sizes(pixel_coords, img, depth, pose,
                                      intrinsics, intrinsics_inv)
          IN  /\ pixel_coords' = r.pixel_coords
              /\ ret' = r.ret
              /\ args' = [img |-> img, depth |-> depth, pose |-> pose,
                          intrinsics |-> intrinsics,
                          intrinsics_inv |-> intrinsics_inv]
    /\ UNCHANGED <<calls, pc>>

NextWarp == InverseWarpCall

SpecWarp == InitWarp /\ [][NextWarp]_vars

\* C3: a call either fails one of the checks of lines 141-147, leaving the
\* cache as it was, or returns an array of size [B,3,H,W]; nothing fails
\* after the checks and no failing call changes the cache.
C3_NoPartialFailure ==
    [][\/ /\ ret'.exc # "none"
          /\ ret'.line \in 141..147
          /\ pixel_coords' = pixel_coords
       \/ /\ ret'.exc = "none"
          /\ ret'.size = args'.img]_vars

\* the shape pattern each argument is documented to have (lines 133-137)
Documented ==
    [img |-> <<"B", "3", "H", "W">>, depth |-> <<"B", "H", "W">>,
     pose |-> <<"B", "6">>, intrinsics |-> <<"B", "3", "3">>,
     intrinsics_inv |-> <<"B", "3", "3">>]

Malformed(size, pattern) ==
    \/ Len(size) # Len(pattern)
    \/ \E i \in 1..Len(pattern) :
          /\ pattern[i] \in {"3", "6"}
          /\ size[i] # (IF pattern[i] = "3" THEN 3 ELSE 6)

\* C4: a failure of one of the five shape checks is the descriptive error,
\* and it names an argument that is malformed, with that argument's
\* pattern and that argument's size.
C4_DescriptiveError ==
    (ret # None /\ ret.exc # "none" /\ ret.line \in 141..145) =>
        /\ ret.exc = "AssertionError"
        /\ ret.name \in DOMAIN Documented
        /\ Malformed(args[ret.name], Documented[ret.name])
        /\ ret.expected = Documented[ret.name]
        /\ ret.got = args[ret.name]

-----------------------------------------------------------------------------
(***************************************************************************)
(* cam2pixel for one batch element: cam_coords is an H x W grid of points, *)
(* proj_c2p a 3 x 4 matrix, the result an H x W grid of <<X_norm, Y_norm>>.*)
(***************************************************************************)
\* line 53: proj_c2p[:,:,:3].bmm(cam_coords_flat) + proj_c2p[:,:,3:]
pcoords(proj_c2p, p) ==
    AsSeq([k \in 1..3 |->
        Add(Dot3(<<proj_c2p[k][1], proj_c2p[k][2], proj_c2p[k][3]>>, p),
            proj_c2p[k][4])])

\* a clamp from above where line 56 clamps from below
clamp_max(z) == IF Gt(z, Q(1, 1000)) THEN Q(1, 1000) ELSE z

\* line 56: .clamp(min=1e-3)
clamp(z) == IF Lt(z, Q(1, 1000)) THEN Q(1, 1000) ELSE z

\* the normalisation by the size where lines 58 and 61 have the size - 1
Normalize_n(x, z, n) == Sub(Div(Mul(I(2), Div(x, z)), I(n)), I(1))

\* lines 58 and 61: 2*(X / Z)/(w-1) - 1
Normalize(x, z, n) == Sub(Div(Mul(I(2), Div(x, z)), I(n - 1)), I(1))

\* lines 59-60 and 62-63: the entries > 1 or < -1 become 2
Mask(v) == IF Gt(v, I(1)) \/ Lt(v, I(-1)) THEN I(2) ELSE v

\* lines 51-66
cam2pixel(cam, proj_c2p) ==
    LET h == Len(cam)
        w == Len(cam[1])
    IN  AsSeq([i \in 1..h |-> AsSeq([j \in 1..w |->
            LET pt == pcoords(proj_c2p, cam[i][j])
                X == pt[1]
                Y == pt[2]
                Z == clamp(pt[3])
                X_norm == Mask(Normalize(X, Z, w))
                Y_norm == Mask(Normalize(Y, Z, h))
            IN  <<X_norm, Y_norm>>])])

(***************************************************************************)
(* One cam2pixel call on a grid holding the points (X, Y, Z) and           *)
(* (X2, Y, Z) in a checkerboard.                                           *)
(***************************************************************************)
XYVals == {I(-1), I(0), Q(1, 2000), I(1), I(3)}

ZVals == {I(-5), I(0), Q(1, 2000), I(1), I(2)}

Eye34 == << <<I(1), I(0), I(0), I(0)>>, <<I(0), I(1), I(0), I(0)>>,
            <<I(0), I(0), I(1), I(0)>> >>

Shift34 == << <<I(1), I(0), I(0), I(1)>>, <<I(0), I(1), I(0), I(0)>>,
              <<I(0), I(0), I(1), I(0)>> >>

InitProj ==
    /\ pixel_coords = None
    /\ calls = <<>>
    /\ \E h \in 1..MaxH, w \in 1..MaxW, X \in XYVals, X2 \in XYVals,
          Y \in XYVals, Z \in ZVals, P \in {Eye34, Shift34} :
          args = [cam_coords |-> DepthMap(h, w, <<X, Y, Z>>, <<X2, Y, Z>>),
                  proj_c2p |-> P]
    /\ ret = None
    /\ pc = None

Cam2PixelCall ==
    /\ ret = None
    /\ ret' = cam2pixel(args.cam_coords, args.proj_c2p)
    /\ UNCHANGED <<pixel_coords, calls, args, pc>>

NextProj == Cam2PixelCall

SpecProj == InitProj /\ [][NextProj]_vars

\* the pixels of the call and the point projected at a pixel
Pixels == {ij \in (1..Len(args.cam_coords)) \X (1..Len(args.cam_coords[1])) : TRUE}

Projected(ij) == pcoords(args.proj_c2p, args.cam_coords[ij[1]][ij[2]])

InRange(v) == Le(I(-1), v) /\ Le(v, I(1))

\* C6: each X_norm and each Y_norm returned is within [-1, 1] or is the
\* sentinel 2; Y_norm does not depend on the point's X (nor on whether
\* X_norm was masked); an entry that is in range is what was computed.
C6_ValidityMasking ==
    ret # None =>
        \A ij \in Pixels :
            LET out == ret[ij[1]][ij[2]]
            IN  /\ InRange(out[1]) \/ out[1] = I(2)
                /\ InRange(out[2]) \/ out[2] = I(2)
                /\ \A kl \in Pixels : ret[kl[1]][kl[2]][2] = out[2]
                /\ out[1] # I(2) =>
                      out[1] = Normalize(Projected(ij)[1],
                                         clamp(Projected(ij)[3]), Len(ret[1]))
                /\ out[2] # I(2) =>
                      out[2] = Normalize(Projected(ij)[2],
                                         clamp(Projected(ij)[3]), Len(ret))

BehindCamera(ij) == Le(Projected(ij)[3], I(0))

\* the claim C7 as first stated: a point with Z <= 0 gets the sentinel 2
\* in both coordinates (stated for the grids of 2 x 2 and more, where no
\* coordinate is NaN).
C7_BehindCameraAlwaysMasked ==
    (ret # None /\ Len(ret) >= 2 /\ Len(ret[1]) >= 2) =>
        \A ij \in Pixels :
            BehindCamera(ij) =>
                ret[ij[1]][ij[2]] = <<I(2), I(2)>>

\* 2 * (1000 * x) / (n - 1) - 1, the coordinate of x at depth 1e-3, with
\* the sentinel in place of a value > 1 or < -1
AtMilliDepth(x, n) ==
    LET v == Sub(Div(Mul(I(2000), x), I(n - 1)), I(1))
    IN  IF Lt(I(1), v) \/ Lt(v, I(-1)) THEN I(2) ELSE v

\* C7: a point with Z <= 0 gets the coordinates of the same X and Y at
\* Z = 1e-3, the sentinel 2 only where these are > 1 or < -1; X = 0 on a
\* grid two or more wide gets -1, unmasked.
C7_DepthClamp ==
    ret # None =>
        \A ij \in Pixels :
            BehindCamera(ij) =>
                LET out == ret[ij[1]][ij[2]]
                    pt == Projected(ij)
                IN  /\ out[1] = AtMilliDepth(pt[1], Len(ret[1]))
                    /\ out[2] = AtMilliDepth(pt[2], Len(ret))
                    /\ (pt[1] = I(0) /\ Len(ret[1]) >= 2) => out[1] = I(-1)

\* a point at or behind the camera that got a valid sampling coordinate
C7_Witness ==
    /\ ret # None
    /\ \E ij \in Pixels :
          /\ BehindCamera(ij)
          /\ InRange(ret[ij[1]][ij[2]][1])
          /\ InRange(ret[ij[1]][ij[2]][2])

-----------------------------------------------------------------------------
(***************************************************************************)
(* euler2mat and pose_vec2mat for one batch element.  An angle is a number *)
(* of quarter turns, where sine and cosine are -1, 0 or 1.                 *)
(***************************************************************************)
cos(k) == I(<<1, 0, -1, 0>>[(k % 4) + 1])

sin(k) == I(<<0, 1, 0, -1>>[(k % 4) + 1])

\* bmm for one batch element: a 3 x 3 matrix times a 3 x n matrix
bmm(A, B) ==
    AsSeq([i \in 1..3 |-> AsSeq([j \in 1..Len(B[1]) |->
        Add(Add(Mul(A[i][1], B[1][j]), Mul(A[i][2], B[2][j])),
            Mul(A[i][3], B[3][j]))])])

\* lines 81-107 with the product of line 106 taken in the opposite order
euler2mat_zyx(z, y, x) ==
    LET zmat == << <<cos(z), Neg(sin(z)), I(0)>>,
                   <<sin(z), cos(z), I(0)>>,
                   <<I(0), I(0), I(1)>> >>
        ymat == << <<cos(y), I(0), sin(y)>>,
                   <<I(0), I(1), I(0)>>,
                   <<Neg(sin(y)), I(0), cos(y)>> >>
        xmat == << <<I(1), I(0), I(0)>>,
                   <<I(0), cos(x), Neg(sin(x))>>,
                   <<I(0), sin(x), cos(x)>> >>
    IN  bmm(bmm(zmat, ymat), xmat)

\* lines 81-107
euler2mat(z, y, x) ==
    LET zeros == I(0)
        ones == I(1)
        cosz == cos(z)
        sinz == sin(z)
        zmat == << <<cosz, Neg(sinz), zeros>>,
                   <<sinz, cosz, zeros>>,
                   <<zeros, zeros, ones>> >>
        cosy == cos(y)
        siny == sin(y)
        ymat == << <<cosy, zeros, siny>>,
                   <<zeros, ones, zeros>>,
                   <<Neg(siny), zeros, cosy>> >>
        cosx == cos(x)
        sinx == sin(x)
        xmat == << <<ones, zeros, zeros>>,
                   <<zeros, cosx, Neg(sinx)>>,
                   <<zeros, sinx, cosx>> >>
    IN  bmm(bmm(xmat, ymat), zmat)

\* lines 119-125; vec is <<tx, ty, tz, rx, ry, rz>>
pose_vec2mat(vec) ==
    LET translation == <<I(vec[1]), I(vec[2]), I(vec[3])>>
        rx == vec[4]
        ry == vec[5]
        rz == vec[6]
        rot_mat == euler2mat(rz, ry, rx)
    IN  AsSeq([i \in 1..3 |-> rot_mat[i] \o <<translation[i]>>])

(***************************************************************************)
(* One pose_vec2mat call.                                                  *)
(***************************************************************************)
MaxT == 1

QuarterTurns == 0..3

InitPose ==
    /\ pixel_coords = None
    /\ calls = <<>>
    /\ \E tx \in -MaxT..MaxT, ty \in -MaxT..MaxT, tz \in -MaxT..MaxT,
          rx \in QuarterTurns, ry \in QuarterTurns, rz \in QuarterTurns :
          args = <<tx, ty, tz, rx, ry, rz>>
    /\ ret = None
    /\ pc = None

PoseVec2MatCall ==
    /\ ret = None
    /\ ret' = pose_vec2mat(args)
    /\ UNCHANGED <<pixel_coords, calls, args, pc>>

NextPose == PoseVec2MatCall

SpecPose == InitPose /\ [][NextPose]_vars

\* the elementary right-handed rotations by k quarter turns, in integers
StdCos(k) == CASE k = 0 -> 1 [] k = 1 -> 0 [] k = 2 -> -1 [] k = 3 -> 0

StdSin(k) == CASE k = 0 -> 0 [] k = 1 -> 1 [] k = 2 -> 0 [] k = 3 -> -1

StdRx(k) == << <<1, 0, 0>>, <<0, StdCos(k), -StdSin(k)>>, <<0, StdSin(k), StdCos(k)>> >>

StdRy(k) == << <<StdCos(k), 0, StdSin(k)>>, <<0, 1, 0>>, <<-StdSin(k), 0, StdCos(k)>> >>

StdRz(k) == << <<StdCos(k), -StdSin(k), 0>>, <<StdSin(k), StdCos(k), 0>>, <<0, 0, 1>> >>

IntMatMul(A, B) ==
    [i \in 1..3 |-> [j \in 1..3 |->
        A[i][1] * B[1][j] + A[i][2] * B[2][j] + A[i][3] * B[3][j]]]

\* the rotation part of a 3 x 4 transform, in integers, and its transpose
RotOf(T) == [i \in 1..3 |-> [j \in 1..3 |-> T[i][j][1]]]

Transpose(A) == [i \in 1..3 |-> [j \in 1..3 |-> A[j][i]]]

IntIdentity == << <<1, 0, 0>>, <<0, 1, 0>>, <<0, 0, 1>> >>

\* C10: pose_vec2mat returns [R | t] with t = (tx, ty, tz) the fourth
\* column and R = Rx(rx) . Ry(ry) . Rz(rz); R is the identity for zero
\* angles and R times its transpose is the identity.
C10_PoseAssembly ==
    ret # None =>
        /\ \A i \in 1..3 : Len(ret[i]) = 4 /\ ret[i][4] = <<args[i], 1>>
        /\ \A i \in 1..3 : \A j \in 1..3 : ret[i][j][2] = 1
        /\ RotOf(ret) =
              IntMatMul(IntMatMul(StdRx(args[4]), StdRy(args[5])), StdRz(args[6]))
        /\ (args[4] = 0 /\ args[5] = 0 /\ args[6] = 0) => RotOf(ret) = IntIdentity
        /\ IntMatMul(RotOf(ret), Transpose(RotOf(ret))) = IntIdentity

\* a pose with three different non-zero angles and a translation went
\* through pose_vec2mat
C10_Witness ==
    /\ ret # None
    /\ args[4] = 1 /\ args[5] = 2 /\ args[6] = 3
    /\ args[1] = 1 /\ args[2] = -1 /\ args[3] = 0
    /\ Len(ret) = 3

-----------------------------------------------------------------------------
(***************************************************************************)
(* inverse_warp on values, for one batch element and arguments of the      *)
(* documented sizes (the checks of lines 141-147 pass).  The result is     *)
(* src_pixel_coords, the grid that line 159 hands to torch's grid_sample   *)
(* together with img.                                                      *)
(***************************************************************************)
\* lines 151-158
inverse_warp(cache, depth, pose, intrinsics, intrinsics_inv) ==
    LET p2c == pixel2cam(cache, depth, intrinsics_inv)
        pose_mat == pose_vec2mat(pose)
        proj_cam_to_src_pixel == bmm(intrinsics, pose_mat)
    IN  [pixel_coords |-> p2c.pixel_coords,
         src_pixel_coords |-> cam2pixel(p2c.cam_coords, proj_cam_to_src_pixel)]

WarpDepths == {Q(1, 2000), Q(1, 1000), I(1), I(2)}

ZeroPose == <<0, 0, 0, 0, 0, 0>>

WarpPoses == {ZeroPose, <<1, 0, 0, 0, 0, 0>>, <<0, 0, 0, 0, 0, 1>>}

\* focal length 2, principal point (1, 1), and its inverse
FocalMat == << <<I(2), I(0), I(1)>>, <<I(0), I(2), I(1)>>, <<I(0), I(0), I(1)>> >>

FocalInv ==
    << <<Q(1, 2), I(0), Q(-1, 2)>>, <<I(0), Q(1, 2), Q(-1, 2)>>,
       <<I(0), I(0), I(1)>> >>

\* the pairs <<intrinsics, intrinsics_inv>> of the calls
WarpIntrinsics ==
    {<<Identity3, Identity3>>, <<PPMat, PPInv>>, <<FocalMat, FocalInv>>,
     <<PPMat, PPMat>>}

InitValues ==
    /\ pixel_coords = None
    /\ calls = <<>>
    /\ \E h \in 1..MaxGrid, w \in 1..MaxGrid, d0 \in WarpDepths,
          d1 \in WarpDepths, pose \in WarpPoses, K \in WarpIntrinsics :
          args = [depth |-> DepthMap(h, w, d0, d1), pose |-> pose,
                  intrinsics |-> K[1], intrinsics_inv |-> K[2]]
    /\ ret = None
    /\ pc = None

InverseWarpValues ==
    /\ ret = None
    /\ LET r == inverse_warp(pixel_coords, args.depth, args.pose,
                             args.intrinsics, args.intrinsics_inv)
       IN  /\ pixel_coords' = r.pixel_coords
           /\ ret' = r.src_pixel_coords
    /\ UNCHANGED <<calls, args, pc>>

NextValues == InverseWarpValues

SpecValues == InitValues /\ [][NextValues]_vars

\* the sampling coordinate of the pixel at row r, column c of an h x w
\* image: (2c/(w-1) - 1, 2r/(h-1) - 1)
OwnCoords(r, c, h, w) ==
    <<Q(2 * c - (w - 1), w - 1), Q(2 * r - (h - 1), h - 1)>>

IdentityWarp ==
    /\ ret # None
    /\ args.pose = ZeroPose
    /\ bmm(args.intrinsics, args.intrinsics_inv) = Identity3
    /\ Len(ret) >= 2 /\ Len(ret[1]) >= 2

ReturnsOwnCoords ==
    \A i \in 1..Len(ret) : \A j \in 1..Len(ret[1]) :
        ret[i][j] = OwnCoords(i - 1, j - 1, Len(ret), Len(ret[1]))

Scenario ==
    /\ ret # None
    /\ args.depth = DepthMap(4, 4, I(1), I(1))
    /\ args.pose = ZeroPose
    /\ args.intrinsics = PPMat

\* the claim C9 as first stated: the scenario gives every pixel its own
\* coordinates (2c/3 - 1, 2r/3 - 1).
C9_ScenarioIsIdentity ==
    (Scenario /\ args.intrinsics_inv = PPMat) => ReturnsOwnCoords

\* C9: with the same matrix as K and K_inv the pixel (r, c) is projected
\* to (c + 3, r + 3): the coordinate is 1 in column 0 / row 0 and the
\* sentinel 2 elsewhere; with the inverse matrix as K_inv every pixel gets
\* its own coordinates (2c/3 - 1, 2r/3 - 1).
C9_EndToEnd ==
    /\ (Scenario /\ args.intrinsics_inv = PPMat) =>
          \A i \in 1..4 : \A j \in 1..4 :
              ret[i][j] = <<IF j = 1 THEN I(1) ELSE I(2),
                            IF i = 1 THEN I(1) ELSE I(2)>>
    /\ (Scenario /\ args.intrinsics_inv = PPInv) => ReturnsOwnCoords

\* the scenario has run with the same matrix as K and K_inv
C9_Witness ==
    /\ Scenario
    /\ args.intrinsics_inv = PPMat
    /\ Len(ret) = 4 /\ Len(ret[1]) = 4

=============================================================================
